---- MODULE Spec2Model ----
(***************************************************************************)
(* A model of the denoising autoencoder of dae.py: the noise models, the   *)
(* construction of the tied-weight graph with its optional walkback chain, *)
(* the evaluation of that graph by a session run, and the public calls     *)
(* transform, reconstruct, sample, partial_fit and fit.                    *)
(*                                                                         *)
(* Numbers are fixed-point in halves: the integer v stands for v / One.    *)
(* A data row is a sequence of such numbers.  Every random draw of the     *)
(* code (tf.random_uniform, tf.random_normal, np.random) is a choice among *)
(* the values the draw can take, so an operator that uses a draw returns   *)
(* the SET of its outcomes.                                                *)
(***************************************************************************)
EXTENDS Integers, Sequences, FiniteSets, TLC

VARIABLES cfg, graph, params, pc, frame, ret, log

vars == <<cfg, graph, params, pc, frame, ret, log>>

(***************************************************************************)
(* Bounds of the model.                                                    *)
(***************************************************************************)
MaxLayers == 2      \* longest hidden_dim
MaxWidth == 2       \* widest layer, and widest n_input
MaxWalkbacks == 2   \* largest walkbacks
MaxRows == 3        \* most rows of the matrix given to fit
MaxBatch == 2       \* largest batch_size
MaxEpochs == 2      \* largest num_epochs
MaxSamples == 3     \* largest n_samples given to sample
MaxInfer == 1       \* most rows of a matrix given to transform, reconstruct
MaxSeeds == 2       \* most rows of the in_samples given to sample

(***************************************************************************)
(* Representation of the numbers of the program.                           *)
(***************************************************************************)
One == 2            \* 1.0 (tf.ones), in halves
Half == 1           \* 0.5, the p of the fair coin of salt_and_pepper_noise
NoneVal == -1       \* Python's None where an integer is expected
WMax == 1           \* largest magnitude of a weight entry (init_xavier's high)

Clamp(lo, hi, v) == IF v < lo THEN lo ELSE IF v > hi THEN hi ELSE v

RECURSIVE SumTo(_, _)
SumTo(f, n) == IF n = 0 THEN 0 ELSE f[n] + SumTo(f, n - 1)

\* The sum of the entries of a sequence (tf.reduce_sum, tf.add_n).
Sum(f) == SumTo(f, Len(f))

\* All sequences v with v[i] in S[i]: independent draws, one per element.
Elementwise(S) ==
    {v \in [DOMAIN S -> UNION {S[i] : i \in DOMAIN S}] :
        \A i \in DOMAIN S : v[i] \in S[i]}

Reverse(s) == [i \in 1..Len(s) |-> s[Len(s) + 1 - i]]

(***************************************************************************)
(* Noise models.  Each takes one row; the rows of a batch are corrupted    *)
(* independently.                                                          *)
(***************************************************************************)

\* A variant of binomial with the two branches of tf.select exchanged.
binomial_exchanged(p) == IF p <= 0 THEN {One} ELSE IF p >= One THEN {0} ELSE {0, One}

\* binomial: dist is uniform in [0, 1); an element is 1.0 where dist < p.
binomial(p) == IF p <= 0 THEN {0} ELSE IF p >= One THEN {One} ELSE {0, One}

\* binomial_vec: as binomial, with one probability per element.
binomial_vec(p_vec) == Elementwise([i \in DOMAIN p_vec |-> binomial(p_vec[i])])

\* tf.mul of two fixed-point numbers.
Mul(a, b) == (a * b) \div One

\* salt_and_pepper_noise: c = select(a == 0, b, 0); X * a + c.
salt_and_pepper_noise(X, rate) ==
    Elementwise([i \in DOMAIN X |->
        {Mul(X[i], a) + (IF a = 0 THEN b ELSE 0) :
            a \in binomial(One - rate), b \in binomial(Half)}])

\* masking_noise: X * a.
masking_noise(X, rate) ==
    Elementwise([i \in DOMAIN X |-> {Mul(X[i], a) : a \in binomial(One - rate)}])

\* tf.random_normal(mean=0, stddev=std), cut to one standard deviation.
random_normal(std) == {0 - std, 0, std}

\* gaussian_noise: X + N(0, std).
gaussian_noise(X, std) ==
    Elementwise([i \in DOMAIN X |-> {X[i] + g : g \in random_normal(std)}])

\* The gaussian branch of corrupt_input:
\* gaussian_noise(x, std) * corrupt_prob + x * (1 - corrupt_prob).
gaussian_blend(X, std, corrupt_prob) ==
    {[i \in DOMAIN X |-> Mul(n[i], corrupt_prob) + Mul(X[i], One - corrupt_prob)] :
        n \in gaussian_noise(X, std)}

(***************************************************************************)
(* The graph.  A graph is a sequence of nodes, each naming its input node  *)
(* by position, and a sequence of the trainable variables created so far.  *)
(* op is "placeholder", a noise model, "dense" (transfer_fct(in @ W + b),  *)
(* W transposed when T) or "binomial_vec".  width is the static number of  *)
(* columns of the node's tensor.                                           *)
(***************************************************************************)
Node(op, inp, width) ==
    [op |-> op, inp |-> inp, width |-> width,
     W |-> 0, b |-> 0, T |-> FALSE, rate |-> 0, std |-> 0]

\* self.x = tf.placeholder(tf.float32, [None, n_input]).
EmptyGraph(n_input) ==
    [nodes |-> <<Node("placeholder", 0, n_input)>>, variables |-> <<>>]

AddNode(g, n) == [g EXCEPT !.nodes = Append(@, n)]

\* tf.Variable(init(shape)): a new trainable variable of the graph.
Variable(g, kind, shape) ==
    [g EXCEPT !.variables = Append(@, [kind |-> kind, shape |-> shape])]

\* A variant of corrupt_input whose last branch is masking noise.
corrupt_input_else_masking(g, x, corrupt_type, corrupt_prob, corrupt_std) ==
    LET w == g.nodes[x].width IN
    IF corrupt_type = "salt_and_pepper"
    THEN [Node("salt_and_pepper", x, w) EXCEPT !.rate = corrupt_prob]
    ELSE IF corrupt_type = "gaussian"
    THEN [Node("gaussian", x, w) EXCEPT !.rate = corrupt_prob, !.std = corrupt_std]
    ELSE [Node("masking", x, w) EXCEPT !.rate = corrupt_prob]

\* corrupt_input: the noise node chosen by self.corrupt_type.
corrupt_input(g, x, corrupt_type, corrupt_prob, corrupt_std) ==
    LET w == g.nodes[x].width IN
    IF corrupt_type = "salt_and_pepper"
    THEN [Node("salt_and_pepper", x, w) EXCEPT !.rate = corrupt_prob]
    ELSE IF corrupt_type = "masking"
    THEN [Node("masking", x, w) EXCEPT !.rate = corrupt_prob]
    ELSE IF corrupt_type = "gaussian"
    THEN [Node("gaussian", x, w) EXCEPT !.rate = corrupt_prob, !.std = corrupt_std]
    ELSE [Node("salt_and_pepper", x, w) EXCEPT !.rate = corrupt_prob]

\* One pass of the encoder loop of update_layers, then the rest of the loop.
RECURSIVE BuildEncoder(_, _, _, _, _)
BuildEncoder(g, layer_input, dims, layer_i, encoder) ==
    IF layer_i > Len(dims)
    THEN [g |-> g, out |-> layer_input, encoder |-> encoder]
    ELSE LET n_output == dims[layer_i]
             n_input == g.nodes[layer_input].width
             gW == Variable(g, "W", <<n_input, n_output>>)
             W == Len(gW.variables)
             gb == Variable(gW, "b", <<n_output>>)
             b == Len(gb.variables)
             output == [Node("dense", layer_input, n_output)
                           EXCEPT !.W = W, !.b = b, !.T = FALSE]
             g1 == AddNode(gb, output)
         IN  BuildEncoder(g1, Len(g1.nodes), dims, layer_i + 1, Append(encoder, W))

\* One pass of the decoder loop of update_layers, then the rest of the loop.
\* encoder is the reversed list; W = tf.transpose(encoder[layer_i]).
RECURSIVE BuildDecoder(_, _, _, _, _)
BuildDecoder(g, layer_input, dims, layer_i, encoder) ==
    IF layer_i > Len(dims)
    THEN [g |-> g, out |-> layer_input]
    ELSE LET n_output == dims[layer_i]
             W == encoder[layer_i]
             gb == Variable(g, "b", <<n_output>>)
             b == Len(gb.variables)
             output == [Node("dense", layer_input, n_output)
                           EXCEPT !.W = W, !.b = b, !.T = TRUE]
             g1 == AddNode(gb, output)
         IN  BuildDecoder(g1, Len(g1.nodes), dims, layer_i + 1, encoder)

\* A variant of update_layers that corrupts only the placeholder.
update_layers_corrupt_once(g, x, layer_dim, c) ==
    LET g0 == IF g.nodes[x].op = "placeholder"
              THEN AddNode(g, corrupt_input(g, x, c.corrupt_type, c.corrupt_prob,
                                            c.corrupt_std))
              ELSE g
        enc == BuildEncoder(g0, IF g0 = g THEN x ELSE Len(g0.nodes),
                            Tail(layer_dim), 1, <<>>)
        z == enc.out
        dec == BuildDecoder(enc.g, z,
                            Reverse(SubSeq(layer_dim, 1, Len(layer_dim) - 1)),
                            1, Reverse(enc.encoder))
    IN  [g |-> dec.g, x |-> x, y |-> dec.out, z |-> z]

\* A variant of update_layers whose decoder takes the encoder weights in the
\* order they were made.
update_layers_unreversed(g, x, layer_dim, c) ==
    LET g0 == AddNode(g, corrupt_input(g, x, c.corrupt_type, c.corrupt_prob,
                                       c.corrupt_std))
        enc == BuildEncoder(g0, Len(g0.nodes), Tail(layer_dim), 1, <<>>)
        z == enc.out
        dec == BuildDecoder(enc.g, z,
                            Reverse(SubSeq(layer_dim, 1, Len(layer_dim) - 1)),
                            1, enc.encoder)
    IN  [g |-> dec.g, x |-> x, y |-> dec.out, z |-> z]

\* update_layers(x): corrupt x, encode, decode.  Returns the graph so far
\* and the nodes (x, y, z).
update_layers(g, x, layer_dim, c) ==
    LET g0 == AddNode(g, corrupt_input(g, x, c.corrupt_type, c.corrupt_prob,
                                       c.corrupt_std))
        enc == BuildEncoder(g0, Len(g0.nodes), Tail(layer_dim), 1, <<>>)
        z == enc.out
        dec == BuildDecoder(enc.g, z,
                            Reverse(SubSeq(layer_dim, 1, Len(layer_dim) - 1)),
                            1, Reverse(enc.encoder))
    IN  [g |-> dec.g, x |-> x, y |-> dec.out, z |-> z]

\* The walkback loop of _autoencoder: iteration i of range(self.walkbacks).
RECURSIVE Walkback(_, _, _, _, _, _)
Walkback(g, x, layer_dim, c, i, acc) ==
    IF i >= c.walkbacks
    THEN acc
    ELSE LET u == update_layers(g, x, layer_dim, c)
             p_X_chain == Append(acc.p_X_chain, u.y)
             g1 == AddNode(u.g, Node("binomial_vec", u.y, u.g.nodes[u.y].width))
         IN  Walkback(g1, Len(g1.nodes), layer_dim, c, i + 1,
                      [g |-> g1, z |-> u.z, y |-> u.y, p_X_chain |-> p_X_chain])

\* A variant of _autoencoder that returns the z and y of the first iteration.
autoencoder_first(g, layer_input, layer_dim, c) ==
    IF c.walkbacks > 0
    THEN LET r == Walkback(g, layer_input, layer_dim, c, 0,
                           [g |-> g, z |-> 0, y |-> 0, p_X_chain |-> <<>>])
             u == update_layers(g, layer_input, layer_dim, c)
         IN  [r EXCEPT !.z = u.z, !.y = u.y]
    ELSE LET u == update_layers(g, layer_input, layer_dim, c)
         IN  [g |-> u.g, z |-> u.z, y |-> u.y, p_X_chain |-> <<>>]

\* _autoencoder(layer_input, layer_dim): returns (z, y, p_X_chain).
autoencoder(g, layer_input, layer_dim, c) ==
    IF c.walkbacks > 0
    THEN Walkback(g, layer_input, layer_dim, c, 0,
                  [g |-> g, z |-> 0, y |-> 0, p_X_chain |-> <<>>])
    ELSE LET u == update_layers(g, layer_input, layer_dim, c)
         IN  [g |-> u.g, z |-> u.z, y |-> u.y, p_X_chain |-> <<>>]

\* A variant of the objective that keeps only the last reconstruction.
cost_terms_last(c, y, p_X_chain) == <<y>>

\* _create_loss_optimizer: the reconstructions whose cross-entropies against
\* self.x are added up in self.cost.
cost_terms(c, y, p_X_chain) == IF c.walkbacks > 0 THEN p_X_chain ELSE <<y>>

\* _create_network and _create_loss_optimizer, as __init__ calls them.
create_network(c) ==
    LET layer_dim == <<c.n_input>> \o c.hidden_dim
        a == autoencoder(EmptyGraph(c.n_input), 1, layer_dim, c)
    IN  [nodes |-> a.g.nodes, variables |-> a.g.variables,
         x |-> 1, z |-> a.z, y |-> a.y, p_X_chain |-> a.p_X_chain,
         cost |-> cost_terms(c, a.y, a.p_X_chain)]

(***************************************************************************)
(* Parameters.  params maps each variable of the graph to its value: a     *)
(* weight matrix is a sequence of rows of whole numbers, a bias a sequence *)
(* of fixed-point numbers.                                                 *)
(***************************************************************************)

\* np.random.seed(0); tf.set_random_seed(0): the draws of the initializers
\* are those of this fixed seed.
RandomSeed == 0

\* init_xavier: uniform in [low, high] with low = -high; seed picks the draw.
init_xavier(fan, seed) ==
    [i \in 1..fan[1] |-> [j \in 1..fan[2] |->
        IF (i + j + seed) % 2 = 0 THEN WMax ELSE 0 - WMax]]

\* b_init_fct = tf.zeros.
zeros(shape) == [i \in 1..shape[1] |-> 0]

\* tf.initialize_all_variables, run by __init__.
initialize_all_variables(g, seed) ==
    [v \in 1..Len(g.variables) |->
        IF g.variables[v].kind = "W"
        THEN init_xavier(g.variables[v].shape, seed + v)
        ELSE zeros(g.variables[v].shape)]

\* transfer_fct (tf.nn.sigmoid by default): 0.5 at 0, saturating at 0 and 1.
transfer_fct(v) == Clamp(0, One, v + Half)

\* tf.matmul(layer_input, W), W transposed when T.
matmul(v, W, T) ==
    IF T
    THEN [k \in 1..Len(W) |-> Sum([j \in 1..Len(W[1]) |-> v[j] * W[k][j]])]
    ELSE [k \in 1..Len(W[1]) |-> Sum([j \in 1..Len(W) |-> v[j] * W[j][k]])]

(***************************************************************************)
(* Evaluation of the graph by sess.run, one row at a time.                 *)
(***************************************************************************)

\* The values node n can take when its input node holds v.
NodeOutcomes(g, P, n, v) ==
    LET nd == g.nodes[n] IN
    CASE nd.op = "salt_and_pepper" -> salt_and_pepper_noise(v, nd.rate)
      [] nd.op = "masking" -> masking_noise(v, nd.rate)
      [] nd.op = "gaussian" -> gaussian_blend(v, nd.std, nd.rate)
      [] nd.op = "binomial_vec" -> binomial_vec(v)
      [] nd.op = "dense" ->
            {[k \in 1..nd.width |->
                transfer_fct(matmul(v, P[nd.W], nd.T)[k] + P[nd.b][k])]}
      [] OTHER -> {v}

\* The values node n can take when its ancestor m holds v.
RECURSIVE OutcomesFrom(_, _, _, _, _)
OutcomesFrom(g, P, n, m, v) ==
    IF n = m
    THEN {v}
    ELSE UNION {NodeOutcomes(g, P, n, u) :
                    u \in OutcomesFrom(g, P, g.nodes[n].inp, m, v)}

\* sess.run(node, feed_dict={self.x: X}) for a matrix X: the possible results.
RunRows(g, P, n, X) ==
    Elementwise([r \in DOMAIN X |-> OutcomesFrom(g, P, n, g.x, X[r])])

\* tf.clip_by_value(output, offset, 1 - offset): 0 stands for offset and One
\* for 1 - offset.
clip_by_value(o) == Clamp(0, One, o)

\* tf.log at the clipped values, in hundredths: log(1e-10), log(0.5),
\* log(1 - 1e-10).
LogOffset == -2303
LogHalf == -69
tf_log(o) == IF o <= 0 THEN LogOffset ELSE IF o >= One THEN 0 ELSE LogHalf

\* binary_crossentropy(output, target) of one row.
binary_crossentropy(output, target) ==
    0 - Sum([j \in 1..Len(output) |->
                Mul(target[j], tf_log(clip_by_value(output[j])))
                + Mul(One - target[j], tf_log(One - clip_by_value(output[j])))])

\* The possible (value of terms[k], sum of the cross-entropies of terms[1..k]
\* against x) for the row x: the terms are evaluated in one run, each from
\* the value the one before it took.
RECURSIVE ChainOutcomes(_, _, _, _, _)
ChainOutcomes(g, P, terms, k, x) ==
    IF k = 1
    THEN {<<v, binary_crossentropy(v, x)>> :
            v \in OutcomesFrom(g, P, terms[1], g.x, x)}
    ELSE UNION {{<<v, p[2] + binary_crossentropy(v, x)>> :
                    v \in OutcomesFrom(g, P, terms[k], terms[k - 1], p[1])} :
                p \in ChainOutcomes(g, P, terms, k - 1, x)}

\* self.cost for the batch X: tf.reduce_mean(tf.add_n(cross_entropies)).
CostOutcomes(g, P, X) ==
    LET per_sample == [r \in DOMAIN X |->
            {p[2] : p \in ChainOutcomes(g, P, g.cost, Len(g.cost), X[r])}]
    IN  {Sum(l) \div Len(X) : l \in Elementwise(per_sample)}

\* One step of AdamOptimizer(learning_rate).minimize(self.cost): every
\* trainable variable moves by one unit, in the direction d of its gradient.
AdamStep(g, P, d) ==
    [v \in DOMAIN P |->
        IF g.variables[v].kind = "W"
        THEN [i \in DOMAIN P[v] |-> [j \in DOMAIN P[v][i] |->
                Clamp(0 - WMax, WMax, P[v][i][j] + d)]]
        ELSE [i \in DOMAIN P[v] |-> Clamp(0 - Half, Half, P[v][i] + d)]]

AdamOutcomes(g, P) == {AdamStep(g, P, d) : d \in {-1, 1}}

\* A variant of sess_run that runs the optimizer whatever is fetched.
sess_run_training(g, P, fetches, X) ==
    IF fetches = "cost_optimizer"
    THEN {[val |-> c, params |-> P2, steps |-> 1] :
            c \in CostOutcomes(g, P, X), P2 \in AdamOutcomes(g, P)}
    ELSE {[val |-> v, params |-> P2, steps |-> 1] :
            v \in RunRows(g, P, IF fetches = "z" THEN g.z ELSE g.y, X),
            P2 \in AdamOutcomes(g, P)}

\* self.sess.run(fetches, feed_dict={self.x: X}): the possible results, each
\* with the parameters afterwards and the number of optimizer steps run.
\* fetches is "z", "y" or "cost_optimizer".
sess_run(g, P, fetches, X) ==
    IF fetches = "cost_optimizer"
    THEN {[val |-> c, params |-> P2, steps |-> 1] :
            c \in CostOutcomes(g, P, X), P2 \in AdamOutcomes(g, P)}
    ELSE {[val |-> v, params |-> P, steps |-> 0] :
            v \in RunRows(g, P, IF fetches = "z" THEN g.z ELSE g.y, X)}

(***************************************************************************)
(* Inputs of the calls.                                                    *)
(***************************************************************************)
RECURSIVE Pow2(_)
Pow2(n) == IF n = 0 THEN 1 ELSE 2 * Pow2(n - 1)

\* Row r of the data: its j-th feature is bit j of r, as 0.0 or 1.0.
Row(r, w) == [j \in 1..w |-> IF (r \div Pow2(j - 1)) % 2 = 1 THEN One ELSE 0]

\* A data matrix of n rows and w columns.
Data(n, w) == [r \in 1..n |-> Row(r, w)]

\* The matrices given to transform, reconstruct and partial_fit: runs of up
\* to MaxInfer consecutive rows of the data.
Batches(w) ==
    {SubSeq(Data(MaxRows, w), ij[1], ij[2]) :
        ij \in {p \in (1..MaxRows) \X (1..MaxRows) :
                    p[1] <= p[2] /\ p[2] < p[1] + MaxInfer}}

\* np.arange(n) after np.random.shuffle: any order of 0 .. n - 1.
shuffle_arange(n) ==
    {f \in [1..n -> 0..(n - 1)] : \A i, j \in 1..n : f[i] = f[j] => i = j}

\* Python's range(start, stop, step) for step > 0.
range(start, stop, step) ==
    [k \in 1..(IF stop <= start THEN 0 ELSE (stop - start + step - 1) \div step)
        |-> start + (k - 1) * step]

\* Python's s[lo:hi] for 0 <= lo: positions lo .. hi - 1, cut at the end.
Slice(s, lo, hi) == SubSeq(s, lo + 1, IF hi > Len(s) THEN Len(s) ELSE hi)

\* X[excerpt] for a sequence of row positions counted from 0.
Take(X, excerpt) == [k \in 1..Len(excerpt) |-> X[excerpt[k] + 1]]

NoFrame == [op |-> "none"]
NoRet == [op |-> "none"]

(***************************************************************************)
(* __init__: the state after construction, for a configuration c.          *)
(***************************************************************************)
Constructed(c) ==
    /\ cfg = c
    /\ graph = create_network(c)
    /\ params = initialize_all_variables(graph, RandomSeed)
    /\ pc = "idle"
    /\ frame = NoFrame
    /\ ret = NoRet
    /\ log = <<>>

(***************************************************************************)
(* transform, reconstruct, partial_fit.                                    *)
(***************************************************************************)
transform(X) ==
    /\ pc = "idle"
    /\ \E r \in sess_run(graph, params, "z", X) :
        /\ params' = r.params
        /\ ret' = [op |-> "transform", arg |-> X, val |-> r.val, steps |-> r.steps]
    /\ log' = <<>>
    /\ UNCHANGED <<cfg, graph, pc, frame>>

reconstruct(X) ==
    /\ pc = "idle"
    /\ \E r \in sess_run(graph, params, "y", X) :
        /\ params' = r.params
        /\ ret' = [op |-> "reconstruct", arg |-> X, val |-> r.val, steps |-> r.steps]
    /\ log' = <<>>
    /\ UNCHANGED <<cfg, graph, pc, frame>>

partial_fit(X) ==
    /\ pc = "idle"
    /\ \E r \in sess_run(graph, params, "cost_optimizer", X) :
        /\ params' = r.params
        /\ ret' = [op |-> "partial_fit", arg |-> X, val |-> r.val, steps |-> r.steps]
    /\ log' = <<>>
    /\ UNCHANGED <<cfg, graph, pc, frame>>

(***************************************************************************)
(* sample: the call, one pass of its loop, and its return.  samples holds  *)
(* the rows of the np.empty array written so far.                          *)
(***************************************************************************)
sample_call(in_samples, n_samples) ==
    /\ pc = "idle"
    /\ pc' = "sample_loop"
    /\ frame' = [op |-> "sample", in_samples |-> in_samples,
                 n_samples |-> n_samples, i |-> 0, samples |-> <<>>,
                 steps |-> 0]
    /\ ret' = NoRet
    /\ log' = <<>>
    /\ UNCHANGED <<cfg, graph, params>>

\* A variant of sample_feed that feeds a seed row at every pass.
sample_feed_seed(f) == {<<f.in_samples[k]>> : k \in 1..Len(f.in_samples)}

\* The matrix fed to self.y at pass i: a random seed row, or samples[i-1].
sample_feed(f) ==
    IF f.i = 0
    THEN {<<f.in_samples[k]>> : k \in 1..Len(f.in_samples)}
    ELSE {<<f.samples[f.i]>>}

sample_step ==
    /\ pc = "sample_loop"
    /\ frame.i < frame.n_samples
    /\ \E in_sample \in sample_feed(frame) :
       \E r \in sess_run(graph, params, "y", in_sample) :
        /\ params' = r.params
        /\ frame' = [frame EXCEPT !.i = @ + 1,
                                  !.samples = Append(@, r.val[1]),
                                  !.steps = @ + r.steps]
    /\ UNCHANGED <<cfg, graph, pc, ret, log>>

sample_return ==
    /\ pc = "sample_loop"
    /\ frame.i >= frame.n_samples
    /\ pc' = "idle"
    /\ ret' = [op |-> "sample", arg |-> <<frame.in_samples, frame.n_samples>>,
               val |-> frame.samples, steps |-> frame.steps]
    /\ frame' = NoFrame
    /\ UNCHANGED <<cfg, graph, params, log>>

(***************************************************************************)
(* fit: the call, the start of an epoch, one mini-batch, the end of an     *)
(* epoch, and the return.  batches records the excerpts of this epoch and  *)
(* steps counts the optimizer steps of this call.  log holds, for each     *)
(* line printed, the epoch number it starts with.                          *)
(***************************************************************************)
fit_call(X, shuffle, display_step) ==
    /\ pc = "idle"
    /\ pc' = "fit_epoch"
    /\ frame' = [op |-> "fit", X |-> X, shuffle |-> shuffle,
                 display_step |-> IF display_step = NoneVal
                                  THEN cfg.log_every ELSE display_step,
                 n_samples |-> Len(X), epoch |-> 0, indices |-> <<>>,
                 start_idxs |-> <<>>, pos |-> 1, avg_cost |-> 0,
                 batches |-> <<>>, steps |-> 0]
    /\ ret' = NoRet
    /\ log' = <<>>
    /\ UNCHANGED <<cfg, graph, params>>

\* A variant of start_idxs that also starts a batch in the trailing rows.
start_idxs_partial(n, batch_size) == range(0, n, batch_size)

\* start_idxs = range(0, len(X) - self.batch_size + 1, self.batch_size).
start_idxs(n, batch_size) == range(0, n - batch_size + 1, batch_size)

fit_epoch ==
    /\ pc = "fit_epoch"
    /\ frame.epoch < cfg.num_epochs
    /\ \E indices \in IF frame.shuffle THEN shuffle_arange(Len(frame.X))
                                       ELSE {frame.indices} :
        frame' = [frame EXCEPT
            !.indices = indices,
            !.avg_cost = 0,
            !.start_idxs = start_idxs(Len(frame.X), cfg.batch_size),
            !.pos = 1,
            !.batches = <<>>]
    /\ pc' = "fit_batch"
    /\ UNCHANGED <<cfg, graph, params, ret, log>>

\* The rows of one mini-batch, as positions counted from 0.
fit_excerpt(f, start_idx) ==
    IF f.shuffle
    THEN Slice(f.indices, start_idx, start_idx + cfg.batch_size)
    ELSE Slice([k \in 1..Len(f.X) |-> k - 1], start_idx, start_idx + cfg.batch_size)

fit_batch ==
    /\ pc = "fit_batch"
    /\ frame.pos <= Len(frame.start_idxs)
    /\ LET excerpt == fit_excerpt(frame, frame.start_idxs[frame.pos])
           batch == Take(frame.X, excerpt)
       IN  \E r \in sess_run(graph, params, "cost_optimizer", batch) :
            /\ params' = r.params
            /\ frame' = [frame EXCEPT
                !.avg_cost = @ + (r.val * cfg.batch_size) \div frame.n_samples,
                !.pos = @ + 1,
                !.batches = Append(@, excerpt),
                !.steps = @ + r.steps]
    /\ UNCHANGED <<cfg, graph, pc, ret, log>>

fit_epoch_end ==
    /\ pc = "fit_batch"
    /\ frame.pos > Len(frame.start_idxs)
    /\ log' = IF /\ Len(frame.start_idxs) > 0
                 /\ frame.display_step \notin {NoneVal, 0}
                 /\ frame.epoch % frame.display_step = 0
              THEN Append(log, frame.epoch + 1)
              ELSE log
    /\ frame' = [frame EXCEPT !.epoch = @ + 1]
    /\ pc' = "fit_epoch"
    /\ UNCHANGED <<cfg, graph, params, ret>>

fit_return ==
    /\ pc = "fit_epoch"
    /\ frame.epoch >= cfg.num_epochs
    /\ pc' = "idle"
    /\ ret' = [op |-> "fit", arg |-> frame.X, val |-> <<>>, steps |-> frame.steps]
    /\ frame' = NoFrame
    /\ UNCHANGED <<cfg, graph, params, log>>

\* close: the session is closed and no call can follow.
close ==
    /\ pc = "idle"
    /\ pc' = "closed"
    /\ UNCHANGED <<cfg, graph, params, frame, ret, log>>

(***************************************************************************)
(* Configurations and specifications.                                      *)
(***************************************************************************)
Config(num_epochs, batch_size, hidden_dim, n_input, corrupt_type, corrupt_prob, corrupt_std, walkbacks, log_every) ==
    [num_epochs |-> num_epochs, batch_size |-> batch_size,
     hidden_dim |-> hidden_dim, n_input |-> n_input,
     corrupt_type |-> corrupt_type, corrupt_prob |-> corrupt_prob,
     corrupt_std |-> corrupt_std, walkbacks |-> walkbacks,
     log_every |-> log_every]

HiddenDims == UNION {[1..l -> 1..MaxWidth] : l \in 1..MaxLayers}

CorruptTypes == {"salt_and_pepper", "masking", "gaussian", "masked", "uniform"}

\* The values given for display_step: None, 0 and two intervals.
DisplaySteps == {NoneVal, 0, 1, 2}

\* Training: every batch_size, num_epochs and log_every, on one small network.
FitInit ==
    \E num_epochs \in 0..MaxEpochs, batch_size \in 1..MaxBatch,
       log_every \in {NoneVal, 1} :
        Constructed(Config(num_epochs, batch_size, <<1>>, 1, "masking", Half,
                           Half, 0, log_every))

FitNext ==
    \/ \E n \in 0..MaxRows, shuffle \in BOOLEAN,
          display_step \in DisplaySteps :
            fit_call(Data(n, cfg.n_input), shuffle, display_step)
    \/ fit_epoch
    \/ fit_batch
    \/ fit_epoch_end
    \/ fit_return

SpecFit == FitInit /\ [][FitNext]_vars

\* Construction: every architecture, corruption and walkback count.
GraphInit ==
    \E hidden_dim \in HiddenDims, n_input \in 1..MaxWidth,
       corrupt_type \in CorruptTypes, corrupt_prob \in {0, Half, One},
       walkbacks \in 0..MaxWalkbacks :
        Constructed(Config(1, 1, hidden_dim, n_input, corrupt_type, corrupt_prob,
                           Half, walkbacks, NoneVal))

GraphNext == close

SpecGraph == GraphInit /\ [][GraphNext]_vars

\* Every call, on a one-input network with every noise model, with and
\* without noise and walkback, and on a two-input network with masking noise
\* trained on mini-batches of two rows.
Init ==
    \E c \in {Config(1, 1, <<1>>, 1, corrupt_type, corrupt_prob, Half, walkbacks, NoneVal) :
                corrupt_type \in {"salt_and_pepper", "masking", "gaussian"},
                corrupt_prob \in {0, Half}, walkbacks \in 0..MaxWalkbacks}
            \cup {Config(1, 2, <<2>>, 2, "masking", corrupt_prob, Half, 0, NoneVal) :
                    corrupt_prob \in {0, Half}} :
        Constructed(c)

Next ==
    \/ \E X \in Batches(cfg.n_input) : transform(X)
    \/ \E X \in Batches(cfg.n_input) : reconstruct(X)
    \/ \E X \in Batches(cfg.n_input) : partial_fit(X)
    \/ \E k \in 1..MaxSeeds, n \in 0..MaxSamples :
            sample_call(Data(k, cfg.n_input), n)
    \/ sample_step
    \/ sample_return
    \/ \E n \in 0..MaxRows, shuffle \in BOOLEAN, display_step \in {NoneVal, 1} :
            fit_call(Data(n, cfg.n_input), shuffle, display_step)
    \/ fit_epoch
    \/ fit_batch
    \/ fit_epoch_end
    \/ fit_return
    \/ close

Spec == Init /\ [][Next]_vars

(***************************************************************************)
(* Properties of fit, checked under SpecFit.                               *)
(***************************************************************************)

\* The order in which an epoch of fit visits the rows, as positions from 0.
EpochOrder(f) == IF f.shuffle THEN f.indices ELSE [k \in 1..Len(f.X) |-> k - 1]

\* C1: each epoch of fit processes exactly floor(n/b) mini-batches, the j-th
\* being rows (j-1)*b .. j*b-1 of that epoch's row order (a permutation of the
\* rows when shuffling, the original order otherwise), so the trailing n mod b
\* rows are not processed; one optimizer step runs per mini-batch, and fit
\* returns after exactly num_epochs * floor(n/b) optimizer steps.
C1_FullBatchesOnly ==
    /\ pc \in {"fit_epoch", "fit_batch"} =>
        LET n == Len(frame.X)
            b == cfg.batch_size
            order == EpochOrder(frame)
            done == IF pc = "fit_batch" THEN Len(frame.batches) ELSE 0
        IN  /\ frame.steps = frame.epoch * (n \div b) + done
            /\ pc = "fit_batch" =>
                /\ {order[k] : k \in 1..n} = 0..(n - 1)
                /\ Len(order) = n
                /\ done <= n \div b
                /\ frame.pos > Len(frame.start_idxs) => done = n \div b
                /\ \A j \in 1..done :
                    frame.batches[j] = [k \in 1..b |-> order[(j - 1) * b + k]]
    /\ (pc = "idle" /\ ret.op = "fit") =>
        ret.steps = cfg.num_epochs * (Len(ret.arg) \div cfg.batch_size)

\* Witness of C1: a shuffled fit of three rows in batches of two has run its
\* two epochs, each leaving one row out, in two optimizer steps.
C1_Witness ==
    /\ pc = "idle" /\ ret.op = "fit"
    /\ cfg.num_epochs = 2 /\ cfg.batch_size = 2 /\ Len(ret.arg) = 3
    /\ ret.steps = 2

\* A fit of fewer rows than batch_size is in progress.
SmallFit == pc \in {"fit_epoch", "fit_batch"} /\ Len(frame.X) < cfg.batch_size

\* C2: a fit of fewer rows than batch_size has run no optimizer step and
\* printed no line, whatever num_epochs, the shuffle flag and display_step
\* are; each of its steps leaves every parameter unchanged, it always has a
\* next step to take, and it returns having run no step and printed no line.
C2_SmallDataNoOp ==
    [][SmallFit =>
        /\ frame.steps = 0
        /\ log = <<>>
        /\ params' = params
        /\ ENABLED (fit_epoch \/ fit_epoch_end \/ fit_return)
        /\ pc' = "idle" => ret'.op = "fit" /\ ret'.steps = 0 /\ log' = <<>>]_vars

\* Witness of C2: a fit of one row with batch_size two has gone through two
\* epochs with display_step 1 and is about to return.
C2_Witness ==
    /\ pc = "fit_epoch"
    /\ Len(frame.X) = 1 /\ cfg.batch_size = 2
    /\ cfg.num_epochs = 2 /\ frame.epoch = 2
    /\ frame.display_step = 1 /\ frame.shuffle

(***************************************************************************)
(* Properties of the constructed graph, checked under SpecGraph.           *)
(***************************************************************************)
IsNoise(nd) == nd.op \in {"salt_and_pepper", "masking", "gaussian"}

NoiseNodes == {n \in 1..Len(graph.nodes) : IsNoise(graph.nodes[n])}

DenseNodes == {n \in 1..Len(graph.nodes) : graph.nodes[n].op = "dense"}

CountKind(kind) ==
    Cardinality({v \in 1..Len(graph.variables) : graph.variables[v].kind = kind})

\* The node that feeds the first encoder layer of the stack that ends in n.
RECURSIVE StackInput(_)
StackInput(n) ==
    IF graph.nodes[n].op = "dense" THEN StackInput(graph.nodes[n].inp) ELSE n

\* The k-th node upstream of n.
RECURSIVE Up(_, _)
Up(n, k) == IF k = 0 THEN n ELSE Up(graph.nodes[n].inp, k - 1)

\* The number of noise nodes n depends on.
RECURSIVE NoiseAbove(_)
NoiseAbove(n) ==
    IF n = 0
    THEN 0
    ELSE (IF IsNoise(graph.nodes[n]) THEN 1 ELSE 0) + NoiseAbove(graph.nodes[n].inp)

\* n is the output of a last decoder layer.
IsReconstruction(n) ==
    /\ graph.nodes[n].op = "dense"
    /\ graph.nodes[n].T
    /\ graph.nodes[n].width = cfg.n_input
    /\ \A m \in 1..Len(graph.nodes) :
        graph.nodes[m].inp = n => graph.nodes[m].op = "binomial_vec"

\* C3: a constructed model holds exactly L weight matrices and 2L bias
\* vectors for L encoder widths and every walkback count; no decoder layer
\* has a weight matrix of its own.
C3_ParameterCount ==
    /\ CountKind("W") = Len(cfg.hidden_dim)
    /\ CountKind("b") = 2 * Len(cfg.hidden_dim)
    /\ \A d \in DenseNodes : graph.nodes[d].T =>
        \E e \in DenseNodes : ~graph.nodes[e].T /\ graph.nodes[e].W = graph.nodes[d].W

\* The noise node fed by the placeholder.
InputNoise == CHOOSE n \in NoiseNodes : graph.nodes[n].inp = graph.x

KnownCorruptTypes == {"salt_and_pepper", "masking", "gaussian"}

C7_DocumentedNames ==
    /\ cfg.corrupt_type = "salt_and_pepper" =>
        graph.nodes[InputNoise].op = "salt_and_pepper"
    /\ cfg.corrupt_type = "masked" => graph.nodes[InputNoise].op = "masking"
    /\ cfg.corrupt_type = "gaussian" => graph.nodes[InputNoise].op = "gaussian"

\* C9 as stated: with walkbacks K > 0 the corruption is applied to the
\* placeholder alone; the stack of every later iteration is fed the
\* binomial_vec sample of the previous reconstruction itself.
C9_CorruptionOnlyAtFirst ==
    cfg.walkbacks > 0 =>
        /\ IsNoise(graph.nodes[StackInput(graph.p_X_chain[1])])
        /\ graph.nodes[StackInput(graph.p_X_chain[1])].inp = graph.x
        /\ \A i \in 2..Len(graph.p_X_chain) :
            LET s == StackInput(graph.p_X_chain[i]) IN
            /\ graph.nodes[s].op = "binomial_vec"
            /\ graph.nodes[s].inp = graph.p_X_chain[i - 1]

\* C9, amended: with walkbacks K > 0 every iteration applies the configured
\* corruption to its input: iteration 0 to the placeholder, and every later
\* iteration i to the binomial_vec sample drawn from y_{i-1}.
C9_CorruptionAtEveryIteration ==
    cfg.walkbacks > 0 =>
        \A i \in 1..cfg.walkbacks :
            LET s == StackInput(graph.p_X_chain[i])
                src == graph.nodes[s].inp
            IN  /\ IsNoise(graph.nodes[s])
                /\ graph.nodes[s].op = graph.nodes[InputNoise].op
                /\ graph.nodes[s].rate = cfg.corrupt_prob
                /\ IF i = 1
                   THEN src = graph.x
                   ELSE /\ graph.nodes[src].op = "binomial_vec"
                        /\ graph.nodes[src].inp = graph.p_X_chain[i - 1]

\* Witness of C9: a graph of two walkback iterations with masking noise.
C9_Witness ==
    /\ cfg.walkbacks = 2 /\ cfg.corrupt_type = "masking"
    /\ Len(graph.p_X_chain) = 2
    /\ graph.nodes[StackInput(graph.p_X_chain[2])].op = "masking"

\* With walkbacks K > 0: the i-th element of the chain is the reconstruction
\* of iteration i, and self.y and self.z are the reconstruction and the
\* latent code of the last iteration.
ChainIsIterations ==
    cfg.walkbacks > 0 =>
        /\ \A i \in 1..Len(graph.p_X_chain) :
            /\ IsReconstruction(graph.p_X_chain[i])
            /\ NoiseAbove(graph.p_X_chain[i]) = i
        /\ graph.y = graph.p_X_chain[Len(graph.p_X_chain)]
        /\ graph.z = Up(graph.y, Len(cfg.hidden_dim))
        /\ ~graph.nodes[graph.z].T
        /\ graph.nodes[graph.z].width = cfg.hidden_dim[Len(cfg.hidden_dim)]

\* C10 as stated: the chain has length K when walkbacks K > 0 and length 1
\* when K = 0; when K > 0 its i-th element is y_i and z, y are those of the
\* last iteration.
C10_ChainLengthOneWhenDisabled ==
    /\ Len(graph.p_X_chain) = (IF cfg.walkbacks > 0 THEN cfg.walkbacks ELSE 1)
    /\ ChainIsIterations

\* C10, amended: the chain has length K when walkbacks K > 0 and is empty
\* when K = 0, the single reconstruction y being kept outside it; when K > 0
\* its i-th element is y_i and z, y are those of the last iteration.
C10_ChainLength ==
    /\ Len(graph.p_X_chain) = cfg.walkbacks
    /\ cfg.walkbacks = 0 => IsReconstruction(graph.y) /\ NoiseAbove(graph.y) = 1
    /\ ChainIsIterations

\* Witness of C10: a graph of two walkback iterations over two hidden layers.
C10_Witness ==
    /\ cfg.walkbacks = 2 /\ Len(cfg.hidden_dim) = 2
    /\ Len(graph.p_X_chain) = 2
    /\ graph.y = graph.p_X_chain[2]

(***************************************************************************)
(* Properties of the calls, checked under Spec.                            *)
(***************************************************************************)

\* The reconstructions self.y can give for the row x.
Reconstructions(x) == OutcomesFrom(graph, params, graph.y, graph.x, x)

\* The step is a second transform, or a second reconstruct, of the matrix of
\* the call before it.
RepeatedInference ==
    /\ pc = "idle" /\ pc' = "idle"
    /\ ret.op \in {"transform", "reconstruct"}
    /\ ret'.op = ret.op
    /\ ret'.arg = ret.arg

\* C4 as stated: two reconstruct calls, and two transform calls, on the same
\* input with no training step in between return the same result, for every
\* configuration.
C4_InferenceDeterministic == [][RepeatedInference => ret'.val = ret.val]_vars

\* The configured noise draws nothing: corrupt_prob is 0 and no walkback
\* sample lies between the placeholder and self.y.
Noiseless == cfg.corrupt_prob = 0 /\ cfg.walkbacks <= 1

\* Every row sample has produced is the only reconstruction of the row fed.
SampleDetermined ==
    pc = "sample_loop" =>
        /\ frame.i >= 1 =>
            \E k \in 1..Len(frame.in_samples) :
                Reconstructions(frame.in_samples[k]) = {frame.samples[1]}
        /\ \A r \in 2..frame.i :
            Reconstructions(frame.samples[r - 1]) = {frame.samples[r]}

\* C4, amended: the forward pass at inference time applies the configured
\* corruption, so it is deterministic given the weights when corrupt_prob is
\* 0 and walkbacks <= 1: then two reconstruct calls (and two transform calls)
\* on the same input with no training step in between return the same
\* result, and the rows of sample depend only on the seed row and the weights.
C4_DeterministicWhenNoiseless ==
    [][Noiseless => /\ RepeatedInference => ret'.val = ret.val
                    /\ SampleDetermined']_vars

\* Witness of C4: in a configuration with corrupt_prob 0 and no walkback, a
\* reconstruct has returned after training changed the weights.
C4_Witness ==
    /\ Noiseless /\ cfg.corrupt_type = "salt_and_pepper"
    /\ pc = "idle" /\ ret.op = "reconstruct"
    /\ params # initialize_all_variables(graph, RandomSeed)

\* C5: sample returns exactly n_samples rows of width n_input; row 0 is a
\* reconstruction of one of the seed rows, any of which may be drawn, and
\* every later row i is a reconstruction of row i-1.
C5_SampleChain ==
    /\ pc = "sample_loop" =>
        /\ Len(frame.samples) = frame.i
        /\ frame.i <= frame.n_samples
        /\ \A r \in 1..frame.i : Len(frame.samples[r]) = cfg.n_input
        /\ frame.i >= 1 =>
            \E k \in 1..Len(frame.in_samples) :
                frame.samples[1] \in Reconstructions(frame.in_samples[k])
        /\ \A r \in 2..frame.i :
            frame.samples[r] \in Reconstructions(frame.samples[r - 1])
        /\ frame.i = 0 =>
            \A k \in 1..Len(frame.in_samples) :
                \E in_sample \in sample_feed(frame) : in_sample[1] = frame.in_samples[k]
    /\ (pc = "idle" /\ ret.op = "sample") =>
        /\ Len(ret.val) = ret.arg[2]
        /\ \A r \in 1..Len(ret.val) : Len(ret.val[r]) = cfg.n_input

\* Witness of C5: sample has produced three rows from two seed rows.
C5_Witness ==
    /\ pc = "sample_loop"
    /\ Len(frame.in_samples) = 2
    /\ frame.n_samples = 3 /\ frame.i = 3

\* C8: the parameters change only in a step that runs the optimizer, a
\* partial_fit or a mini-batch of fit; transform, reconstruct and sample
\* leave every parameter unchanged and run no optimizer step, and partial_fit
\* runs exactly one optimizer step.
C8_OnlyOptimizerChangesParams ==
    [][/\ params' # params =>
            \/ pc = "idle" /\ pc' = "idle" /\ ret'.op = "partial_fit"
            \/ pc = "fit_batch" /\ frame'.steps = frame.steps + 1
       /\ (pc = "idle" /\ pc' = "idle" /\ ret'.op \in {"transform", "reconstruct"}) =>
            params' = params /\ ret'.steps = 0
       /\ pc = "sample_loop" =>
            /\ params' = params
            /\ pc' = "sample_loop" => frame'.steps = 0
            /\ pc' = "idle" => ret'.steps = 0
       /\ (pc = "idle" /\ pc' = "idle" /\ ret'.op = "partial_fit") =>
            ret'.steps = 1]_vars

\* Witness of C8: sample has returned rows after training changed the
\* parameters.
C8_Witness ==
    /\ pc = "idle" /\ ret.op = "sample" /\ Len(ret.val) = 2
    /\ params # initialize_all_variables(graph, RandomSeed)

(***************************************************************************)
(* The training objective, checked under Spec.                             *)
(***************************************************************************)

\* The reconstructions the objective is about: the chain y_0 .. y_{K-1} with
\* walkback, the single reconstruction without.
ObjectiveChain == IF cfg.walkbacks > 0 THEN graph.p_X_chain ELSE <<graph.y>>

\* The values the first k reconstructions of the chain can take together in
\* one run on the row x, each computed from a sample of the one before it.
RECURSIVE ChainValues(_, _)
ChainValues(k, x) ==
    IF k = 0
    THEN {<<>>}
    ELSE UNION {{Append(s, v) :
                    v \in OutcomesFrom(graph, params, ObjectiveChain[k],
                                       IF k = 1 THEN graph.x ELSE ObjectiveChain[k - 1],
                                       IF k = 1 THEN x ELSE s[k - 1])} :
                s \in ChainValues(k - 1, x)}

\* The per-sample losses of the row x: one cross-entropy per chain element,
\* each against x itself, added up.
PerSampleLoss(x) ==
    {Sum([k \in 1..Len(s) |-> binary_crossentropy(s[k], x)]) :
        s \in ChainValues(Len(ObjectiveChain), x)}

\* The batch means of the per-sample losses of the rows of X.
BatchMean(X) ==
    {Sum(l) \div Len(X) : l \in Elementwise([r \in DOMAIN X |-> PerSampleLoss(X[r])])}

\* C11: the cost of every training step, in partial_fit and in a mini-batch
\* of fit, is the batch mean over the rows of the batch of the sum of the
\* cross-entropies of the chain elements y_0 .. y_{K-1} (of the single
\* reconstruction when walkback is disabled), each against the original row
\* that was fed; the objective has exactly max(K, 1) terms, all different
\* reconstructions.
C11_ObjectiveSumsChain ==
    [][/\ (pc = "idle" /\ pc' = "idle" /\ ret'.op = "partial_fit") =>
            /\ Len(graph.cost) = (IF cfg.walkbacks > 0 THEN cfg.walkbacks ELSE 1)
            /\ graph.cost = ObjectiveChain
            /\ \A i, j \in 1..Len(graph.cost) :
                /\ IsReconstruction(graph.cost[i])
                /\ graph.cost[i] = graph.cost[j] => i = j
            /\ ret'.val \in BatchMean(ret'.arg)
       /\ (pc = "fit_batch" /\ frame'.steps = frame.steps + 1) =>
            \E val \in BatchMean(Take(frame.X, frame'.batches[Len(frame'.batches)])) :
                frame'.avg_cost =
                    frame.avg_cost + (val * cfg.batch_size) \div frame.n_samples]_vars

\* Witness of C11: partial_fit has returned a positive cost of a network
\* with two walkback steps and noise.
C11_Witness ==
    /\ pc = "idle" /\ ret.op = "partial_fit" /\ ret.val > 0
    /\ cfg.walkbacks = 2 /\ cfg.corrupt_prob = Half

(***************************************************************************)
(* The shapes of the tied layers, checked under SpecGraph.                 *)
(***************************************************************************)

\* The outputs of the encoder-decoder stacks of the graph: self.y and the
\* elements of the walkback chain.
StackOutputs == {graph.y} \cup {graph.p_X_chain[k] : k \in 1..Len(graph.p_X_chain)}

\* Encoder layer j and decoder layer i (counted from 0) of the stack of L
\* layers each that ends in y.
EncoderLayer(y, j) == Up(y, 2 * Len(cfg.hidden_dim) - 1 - j)

DecoderLayer(y, i) == Up(y, Len(cfg.hidden_dim) - 1 - i)

\* The shape of the matrix the dense node d multiplies by.
MatrixShape(d) ==
    LET shape == graph.variables[graph.nodes[d].W].shape
    IN  IF graph.nodes[d].T THEN <<shape[2], shape[1]>> ELSE shape

\* tf.matmul and tf.add of the dense node d are defined: the columns of its
\* input are the rows of its matrix, and the columns of the matrix are the
\* length of its bias and the columns of its output.
DimensionCompatible(d) ==
    /\ graph.nodes[graph.nodes[d].inp].width = MatrixShape(d)[1]
    /\ graph.variables[graph.nodes[d].b].shape = <<MatrixShape(d)[2]>>
    /\ graph.nodes[d].width = MatrixShape(d)[2]

\* C12: in every stack, decoder layer i multiplies by the transpose of the
\* weight matrix of encoder layer L-1-i and adds a bias as wide as that
\* encoder layer's input; every matrix product of the graph is
\* dimension-compatible; the latent code has last_hidden_width columns and
\* the reconstruction n_input columns.
C12_TiedShapes ==
    LET L == Len(cfg.hidden_dim)
        layer_dim == <<cfg.n_input>> \o cfg.hidden_dim
    IN  /\ \A y \in StackOutputs : \A i \in 0..(L - 1) :
            LET dec == graph.nodes[DecoderLayer(y, i)]
                enc == graph.nodes[EncoderLayer(y, L - 1 - i)]
            IN  /\ dec.op = "dense" /\ enc.op = "dense"
                /\ dec.T /\ ~enc.T
                /\ dec.W = enc.W
                /\ graph.variables[enc.W].kind = "W"
                /\ graph.variables[enc.W].shape = <<layer_dim[L - i], layer_dim[L - i + 1]>>
                /\ graph.variables[dec.b].kind = "b"
                /\ graph.variables[dec.b].shape = <<layer_dim[L - i]>>
                /\ graph.nodes[enc.inp].width = layer_dim[L - i]
        /\ \A d \in DenseNodes : DimensionCompatible(d)
        /\ Cardinality(DenseNodes) = 2 * L * Cardinality(StackOutputs)
        /\ graph.z = EncoderLayer(graph.y, L - 1)
        /\ graph.nodes[graph.z].width = cfg.hidden_dim[L]
        /\ graph.nodes[graph.y].width = cfg.n_input

\* Witness of C12: a network of two hidden layers of different widths, built
\* twice by walkback.
C12_Witness ==
    /\ cfg.n_input = 2 /\ cfg.hidden_dim = <<1, 2>> /\ cfg.walkbacks = 2
    /\ Cardinality(DenseNodes) = 8
    /\ graph.nodes[graph.z].width = 2

====
